---- MODULE Spec2Model ----
(***************************************************************************)
(* Model of the secret-updater custom resource handler                     *)
(* (src/lib/sops-secret.secret-updater.ts): onEvent dispatches a Create,   *)
(* Update or Delete lifecycle event; Create/Update run upsertSecret,       *)
(* Delete runs handleDelete.  Every awaited remote call is one step, so    *)
(* that a failure between two calls leaves the earlier calls applied.      *)
(* The remote secret store is the environment: its operations change the   *)
(* store variable and answer OK, ResourceNotFound or another error.        *)
(***************************************************************************)
EXTENDS Integers, Sequences, FiniteSets, TLC

\* ------------------------------------------------------------------ bounds
NumKeys == 2
NumVals == 2
NumRegions == 2
MaxLen == 5

\* --------------------------------------------------------------- constants
Undefined == "undefined"
OK == "OK"
ResourceNotFound == "ResourceNotFoundException"
RemoteFailure == "RemoteFailure"
SyntaxError == "SyntaxError"
Failed == "Failed"
UnknownEventType == "Unknown event type"
InvalidRequest == "InvalidRequestException"
ResourceExists == "ResourceExistsException"
DecryptError == "sops command failed"
ExecError == "exec failed"

AllNames == {"alpha", "beta"}
\* characters of a plaintext: "a" stands for any non-blank, " " for any blank
Chars == {"a", " "}
Whitespace == {" ", "\n", "\t"}

VARIABLES
  inputs,   \* the sets the invoking layer draws event properties from
  store,    \* remote secret store: name -> secret state
  s3Plain,  \* plaintext the staged S3 object of the current event decrypts to
  event,    \* the lifecycle event being (or last) processed
  pc,       \* position of the handler
  local,    \* upsertSecret / handleDelete local variables
  calls,    \* remote calls issued by the current invocation, in order
  result,   \* outcome of the invocation: resolved Response or rejection
  hist,     \* history: store at the start of the invocation, relation to the previous one
  last,     \* history: the previous invocation (event, plaintext, outcome), kept while idle
  cdk,      \* synthesis: SopsSecret.nameTracker, the resources of each stack, the last construction
  other     \* the invocation that waits while the current one runs (two concurrent invocations)

vars == <<inputs, store, s3Plain, event, pc, local, calls, result, hist, last, cdk, other>>

\* ----------------------------------------------------------- pure helpers
RECURSIVE SeqOfSet(_)
SeqOfSet(S) ==
  IF S = {} THEN <<>>
  ELSE LET m == CHOOSE x \in S : \A y \in S : x <= y
       IN <<m>> \o SeqOfSet(S \ {m})

Range(s) == { s[i] : i \in 1..Len(s) }

\* Array.prototype.map / filter / includes as used on the parsed arrays
MapKeys(tagList) == [i \in 1..Len(tagList) |-> tagList[i][1]]
Includes(list, x) == \E i \in 1..Len(list) : list[i] = x

\* JSON.stringify / JSON.parse of a structured property: the text is either
\* absent (undefined) or carries the array it serialises
JSONstringify(v) == [defined |-> TRUE, wellFormed |-> TRUE, text |-> v]
NoText == [defined |-> FALSE, wellFormed |-> TRUE, text |-> <<>>]
JSONparse(t) == t.text

\* a text that JSON.parse rejects with a SyntaxError
Malformed == [defined |-> TRUE, wellFormed |-> FALSE, text |-> <<>>]

\* the parse of a property is skipped when the property is not set
ParseThrows(t) == t.defined /\ ~t.wellFormed

\* String.prototype.trim
RECURSIVE TrimStart(_)
TrimStart(s) ==
  IF s = <<>> THEN s
  ELSE IF Head(s) \in Whitespace THEN TrimStart(Tail(s)) ELSE s

RECURSIVE TrimEnd(_)
TrimEnd(s) ==
  IF s = <<>> THEN s
  ELSE IF s[Len(s)] \in Whitespace THEN TrimEnd(SubSeq(s, 1, Len(s) - 1)) ELSE s

trimEndOnly(s) == TrimEnd(s)

trim(s) == TrimEnd(TrimStart(s))

decodeSopsLenient(ex) ==
  IF ~ex.ran THEN [ok |-> FALSE, err |-> ExecError, out |-> <<>>]
  ELSE IF ex.stderr # <<>> /\ ex.stdout = <<>>
       THEN [ok |-> FALSE, err |-> DecryptError, out |-> <<>>]
  ELSE [ok |-> TRUE, err |-> OK, out |-> ex.stdout]

\* decodeSops: exec rejects when the command cannot run or exits non-zero;
\* otherwise any non-empty stderr is an error and stdout is returned
decodeSops(ex) ==
  IF ~ex.ran THEN [ok |-> FALSE, err |-> ExecError, out |-> <<>>]
  ELSE IF ex.stderr # <<>> THEN [ok |-> FALSE, err |-> DecryptError, out |-> <<>>]
  ELSE [ok |-> TRUE, err |-> OK, out |-> ex.stdout]

\* ------------------------------------------------------ input universes
TagListOf(f) ==
  LET ks == SeqOfSet(DOMAIN f)
  IN [i \in 1..Len(ks) |-> <<ks[i], f[ks[i]]>>]

TagLists(nk, nv) ==
  { TagListOf(f) : f \in UNION { [S -> 1..nv] : S \in SUBSET (1..nk) } }

RegionLists(nr) == { SeqOfSet(S) : S \in SUBSET (1..nr) }

RECURSIVE Strings(_)
Strings(n) ==
  IF n = 0 THEN { <<>> }
  ELSE LET shorter == Strings(n - 1)
       IN shorter \cup { <<c>> \o s : c \in Chars, s \in { t \in shorter : Len(t) = n - 1 } }

Serialised(lists) == { NoText } \cup { JSONstringify(l) : l \in lists }

\* ------------------------------------------------------------ the store
Absent == [exists |-> FALSE, value |-> <<>>, tags |-> {}, policy |-> Undefined, regions |-> {}]

TagKeysOf(tags) == { t.Key : t \in tags }

RECURSIVE ApplyTags(_, _)
ApplyTags(tags, list) ==
  IF list = <<>> THEN tags
  ELSE ApplyTags({ t \in tags : t.Key # Head(list).Key } \cup { Head(list) }, Tail(list))

Reply(err, st) == [err |-> err, store |-> st]

StoreCreateSecret(st, id, value) ==
  IF st[id].exists THEN Reply(ResourceExists, st)
  ELSE Reply(OK, [st EXCEPT ![id] = [Absent EXCEPT !.exists = TRUE, !.value = value]])

StoreUpdateSecret(st, id, value) ==
  IF ~st[id].exists THEN Reply(ResourceNotFound, st)
  ELSE Reply(OK, [st EXCEPT ![id].value = value])

StoreUntagResource(st, id, keys) ==
  IF ~st[id].exists THEN Reply(ResourceNotFound, st)
  ELSE Reply(OK, [st EXCEPT ![id].tags = { t \in @ : t.Key \notin keys }])

StoreTagResource(st, id, list) ==
  IF ~st[id].exists THEN Reply(ResourceNotFound, st)
  ELSE Reply(OK, [st EXCEPT ![id].tags = ApplyTags(@, list)])

StorePutResourcePolicy(st, id, policy) ==
  IF ~st[id].exists THEN Reply(ResourceNotFound, st)
  ELSE Reply(OK, [st EXCEPT ![id].policy = policy])

\* strict: a store that answers "not found" when there is no policy to delete
StoreDeleteResourcePolicy(st, id, strict) ==
  IF ~st[id].exists THEN Reply(ResourceNotFound, st)
  ELSE IF st[id].policy = Undefined /\ strict THEN Reply(ResourceNotFound, st)
  ELSE Reply(OK, [st EXCEPT ![id].policy = Undefined])

StoreRemoveRegions(st, id, regions) ==
  IF ~st[id].exists THEN Reply(ResourceNotFound, st)
  ELSE Reply(OK, [st EXCEPT ![id].regions = @ \ regions])

\* regions already replicated to are left as they are
StoreReplicateToRegions(st, id, regions) ==
  IF ~st[id].exists THEN Reply(ResourceNotFound, st)
  ELSE Reply(OK, [st EXCEPT ![id].regions = @ \cup regions])

\* a secret that still has replicas cannot be deleted
StoreDeleteSecret(st, id) ==
  IF ~st[id].exists THEN Reply(ResourceNotFound, st)
  ELSE IF st[id].regions # {} THEN Reply(InvalidRequest, st)
  ELSE Reply(OK, [st EXCEPT ![id] = Absent])

\* any remote call may fail for reasons of its own (throttling, access, network)
Send(fault, reply) == IF fault THEN Reply(RemoteFailure, store) ELSE reply

Call(op, id, arg, err, fault) ==
  [op |-> op, SecretId |-> id, arg |-> arg, resp |-> err, injected |-> fault]

ThrowsUnlessNotFound(err) == err \notin {OK, ResourceNotFound}

\* an awaited send outside a try block throws whatever error the call answers
Throws(err) == err # OK

\* the environment deletes a secret out of band, at any moment
ExternalDelete ==
  /\ \E n \in inputs.names :
       /\ store[n].exists
       /\ store' = [store EXCEPT ![n] = Absent]
  /\ UNCHANGED <<inputs, s3Plain, event, pc, local, calls, result, hist, last, cdk, other>>

\* ------------------------------------------------------------- the handler
NoExec == [ran |-> FALSE, stdout |-> <<>>, stderr |-> <<>>]

NoLocal ==
  [execDone |-> FALSE, exec |-> NoExec, decodedSecret |-> <<>>, secretExists |-> FALSE,
   existingTags |-> {}, existingReplicaRegions |-> {}]

StaleLocals == local

\* secretExists, existingTags and existingReplicaRegions are declared anew in
\* every call of upsertSecret
FreshLocals == NoLocal

NoProps ==
  [SecretName |-> Undefined, SecretTags |-> NoText, SecretPolicy |-> Undefined,
   SecretReplicaRegions |-> NoText]

NoResult == [status |-> "pending", PhysicalResourceId |-> Undefined, error |-> OK]

props == event.ResourceProperties

Resolve(id) == [status |-> "resolved", PhysicalResourceId |-> id, error |-> OK]
RejectMasked(err) == [status |-> "rejected", PhysicalResourceId |-> Undefined, error |-> Failed]

\* the promise of an async handler rejects with the error that was thrown in it
Reject(err) == [status |-> "rejected", PhysicalResourceId |-> Undefined, error |-> err]

NoEvent ==
  [RequestType |-> "None", PhysicalResourceId |-> Undefined, ResourceProperties |-> NoProps]

NoHist == [startStore |-> [n \in AllNames |-> Absent], rel |-> "other"]
NoLast == [event |-> NoEvent, plain |-> <<>>, result |-> NoResult]

\* how the new event relates to the invocation that ran before it
Relation(ev, plain) ==
  IF last.event.RequestType = "Create" /\ ev.RequestType = "Update"
     /\ last.result.status = "resolved"
     /\ ev.ResourceProperties = last.event.ResourceProperties /\ plain = last.plain
     /\ ev.PhysicalResourceId = last.result.PhysicalResourceId
  THEN "updateAfterSameCreate"
  ELSE IF last.event.RequestType = "Delete" /\ ev.RequestType = "Delete"
          /\ last.result.status = "resolved"
          /\ ev.PhysicalResourceId = last.result.PhysicalResourceId
  THEN "deleteAfterDelete"
  ELSE IF last.result.status = "rejected" /\ ev = last.event /\ plain = last.plain
  THEN "retryOfFailed"
  ELSE "other"

Events ==
  { [RequestType |-> k, PhysicalResourceId |-> IF k = "Create" THEN Undefined ELSE id,
     ResourceProperties |->
       [SecretName |-> n, SecretTags |-> t, SecretPolicy |-> p, SecretReplicaRegions |-> r]] :
       k \in {"Create", "Update"}, id \in inputs.names, n \in inputs.names,
       t \in inputs.tags, p \in inputs.policies, r \in inputs.regions }
  \cup
  { [RequestType |-> "Delete", PhysicalResourceId |-> id, ResourceProperties |-> NoProps] :
       id \in inputs.names }
  \cup
  { [RequestType |-> k, PhysicalResourceId |-> id, ResourceProperties |-> NoProps] :
       k \in inputs.otherKinds, id \in inputs.names }

DispatchUnknownAsDelete(eventType) ==
  IF eventType \in {"Create", "Update"} THEN "getObject" ELSE "delDescribe"

\* onEvent: the switch on the request type; no case matches an unknown type and
\* the statement after the switch throws
Dispatch(eventType) ==
  CASE eventType = "Create" -> "getObject"
    [] eventType = "Update" -> "getObject"
    [] eventType = "Delete" -> "delDescribe"
    [] OTHER -> "throw"

\* onEvent: the catch block replaces what was thrown by a new Error('Failed')
\* and returns a rejected promise
onEventCatch(err) == Reject(Failed)

\* onEvent: dispatch on the request type
Invoke(ev, plain) ==
  /\ event' = ev
  /\ s3Plain' = plain
  /\ hist' = [startStore |-> store, rel |-> Relation(ev, plain)]
  /\ LET target == Dispatch(ev.RequestType)
     IN IF target = "throw"
        THEN pc' = "done" /\ result' = onEventCatch(UnknownEventType)
        ELSE pc' = target /\ result' = NoResult
  /\ local' = FreshLocals
  /\ calls' = <<>>
  /\ last' = NoLast
  /\ UNCHANGED <<inputs, store, cdk, other>>

\* an invocation's own state: its event, its position and its locals
NoContext ==
  [event |-> NoEvent, s3Plain |-> <<>>, pc |-> "idle", local |-> NoLocal, calls |-> <<>>,
   result |-> NoResult, hist |-> NoHist]

Context ==
  [event |-> event, s3Plain |-> s3Plain, pc |-> pc, local |-> local, calls |-> calls,
   result |-> result, hist |-> hist]

ResumeSharedLocals(ctx) == [ctx EXCEPT !.local = local]

\* the locals of upsertSecret and handleDelete belong to the call: an
\* invocation resumes after an await with its own
Resume(ctx) == ctx

\* the event loop: the current invocation waits at an await (or is over) and
\* the other invocation goes on
Switch ==
  /\ pc # "idle" \/ other.pc # "idle"
  /\ other' = Context
  /\ LET ctx == Resume(other)
     IN /\ event' = ctx.event
        /\ s3Plain' = ctx.s3Plain
        /\ pc' = ctx.pc
        /\ local' = ctx.local
        /\ calls' = ctx.calls
        /\ result' = ctx.result
        /\ hist' = ctx.hist
  /\ UNCHANGED <<inputs, store, last, cdk>>

\* the files an event can point to
Plaintexts(ev) == IF ev.RequestType \in {"Create", "Update"} THEN inputs.plaintexts ELSE { <<>> }

\* an invocation with any event
onEvent ==
  /\ pc = "idle"
  /\ \E ev \in Events : \E plain \in Plaintexts(ev) : Invoke(ev, plain)

\* the events of one resource's lifecycle: a Create, then Updates and a Delete
\* that each carry the identity the invocation before them returned
InLifecycle(ev) ==
  IF last = NoLast THEN ev.RequestType = "Create"
  ELSE /\ last.event.RequestType \in {"Create", "Update"}
       /\ last.result.status = "resolved"
       /\ ev.RequestType \in {"Update", "Delete"}
       /\ ev.PhysicalResourceId = last.result.PhysicalResourceId

\* an invocation with the next event of the lifecycle
onLifecycleEvent ==
  /\ pc = "idle"
  /\ \E ev \in Events :
       /\ InLifecycle(ev)
       /\ \E plain \in Plaintexts(ev) : Invoke(ev, plain)

\* upsertSecret: fetch the encrypted file from S3
GetObject ==
  /\ pc = "getObject"
  /\ \E fault \in BOOLEAN :
       /\ calls' = Append(calls, Call("GetObject", Undefined, <<>>,
                                      IF fault THEN RemoteFailure ELSE OK, fault))
       /\ IF fault
          THEN pc' = "done" /\ result' = Reject(RemoteFailure)
          ELSE pc' = "decode" /\ result' = result
  /\ UNCHANGED <<inputs, store, s3Plain, event, local, hist, last, cdk, other>>

\* what running sops on the file can produce
ExecOutcomes ==
  { [ran |-> FALSE, stdout |-> <<>>, stderr |-> <<>>],
    [ran |-> TRUE, stdout |-> s3Plain, stderr |-> <<>>],
    [ran |-> TRUE, stdout |-> <<>>, stderr |-> <<"a">>],
    [ran |-> TRUE, stdout |-> s3Plain, stderr |-> <<"a">>] }

\* upsertSecret: decode the file with sops
Decode ==
  /\ pc = "decode"
  /\ \E ex \in ExecOutcomes :
       LET d == decodeSops(ex)
       IN IF d.ok
          THEN /\ local' = [local EXCEPT !.execDone = TRUE, !.exec = ex,
                                         !.decodedSecret = d.out]
               /\ pc' = "describe"
               /\ result' = result
          ELSE /\ local' = [local EXCEPT !.execDone = TRUE, !.exec = ex]
               /\ pc' = "done"
               /\ result' = Reject(d.err)
  /\ UNCHANGED <<inputs, store, s3Plain, event, calls, hist, last, cdk, other>>

DescribeErrorRethrown(err) == FALSE

\* the catch around DescribeSecret in upsertSecret
DescribeErrorTolerated(err) == err = ResourceNotFound

\* upsertSecret: check whether the secret exists, keep its tags and replica regions
Describe ==
  /\ pc = "describe"
  /\ \E fault \in BOOLEAN :
       LET id == props.SecretName
           err == IF fault THEN RemoteFailure
                  ELSE IF store[id].exists THEN OK ELSE ResourceNotFound
       IN /\ calls' = Append(calls, Call("DescribeSecret", id, <<>>, err, fault))
          /\ IF err = OK
             THEN /\ local' = [local EXCEPT !.secretExists = TRUE,
                                            !.existingTags = store[id].tags,
                                            !.existingReplicaRegions = store[id].regions]
                  /\ pc' = "write" /\ result' = result
             ELSE IF DescribeErrorTolerated(err)
             THEN /\ local' = [local EXCEPT !.secretExists = FALSE]
                  /\ pc' = "write" /\ result' = result
             ELSE /\ local' = local
                  /\ pc' = "done" /\ result' = Reject(err)
  /\ UNCHANGED <<inputs, store, s3Plain, event, hist, last, cdk, other>>

ValueWriteAlwaysCreate(secretExists) == "CreateSecret"

\* the command upsertSecret writes the value with
ValueWriteOp(secretExists) == IF secretExists THEN "UpdateSecret" ELSE "CreateSecret"

\* upsertSecret: update or create the secret
WriteValue ==
  /\ pc = "write"
  /\ \E fault \in BOOLEAN :
       LET id == props.SecretName
           value == trim(local.decodedSecret)
           op == ValueWriteOp(local.secretExists)
           r == Send(fault, IF op = "UpdateSecret"
                            THEN StoreUpdateSecret(store, id, value)
                            ELSE StoreCreateSecret(store, id, value))
       IN /\ calls' = Append(calls, Call(op, id, value, r.err, fault))
          /\ store' = r.store
          /\ IF ~Throws(r.err)
             THEN pc' = "untag" /\ result' = result
             ELSE pc' = "done" /\ result' = Reject(r.err)
  /\ UNCHANGED <<inputs, s3Plain, event, local, hist, last, cdk, other>>

newTags == IF props.SecretTags.defined THEN JSONparse(props.SecretTags) ELSE <<>>

UntagAlways(existingTags, tagsToRemove) == existingTags # {}

\* whether upsertSecret calls UntagResource
UntagNeeded(existingTags, tagsToRemove) == existingTags # {} /\ tagsToRemove # {}

UntagKeysKept(existingTags, tagsToRemove) ==
  TagKeysOf(existingTags) \ TagKeysOf(tagsToRemove)

\* the keys upsertSecret passes to UntagResource
UntagKeys(existingTags, tagsToRemove) == TagKeysOf(existingTags)

\* upsertSecret: remove existing tags not present in the properties
Untag ==
  /\ pc = "untag"
  /\ LET id == props.SecretName
         tagKeys == MapKeys(newTags)
         tagsToRemove == { t \in local.existingTags : ~Includes(tagKeys, t.Key) }
     IN IF ParseThrows(props.SecretTags)
        THEN /\ pc' = "done" /\ result' = Reject(SyntaxError)
             /\ UNCHANGED <<calls, store>>
        ELSE IF UntagNeeded(local.existingTags, tagsToRemove)
        THEN \E fault \in BOOLEAN :
               LET keys == UntagKeys(local.existingTags, tagsToRemove)
                   r == Send(fault, StoreUntagResource(store, id, keys))
               IN /\ calls' = Append(calls, Call("UntagResource", id, keys, r.err, fault))
                  /\ store' = r.store
                  /\ IF ~Throws(r.err)
                     THEN pc' = "tag" /\ result' = result
                     ELSE pc' = "done" /\ result' = Reject(r.err)
        ELSE /\ pc' = "tag"
             /\ UNCHANGED <<calls, store, result>>
  /\ UNCHANGED <<inputs, s3Plain, event, local, hist, last, cdk, other>>

\* upsertSecret: add the desired tags
Tag ==
  /\ pc = "tag"
  /\ LET id == props.SecretName
         list == [i \in 1..Len(newTags) |-> [Key |-> newTags[i][1], Value |-> newTags[i][2]]]
     IN IF Len(newTags) # 0
        THEN \E fault \in BOOLEAN :
               LET r == Send(fault, StoreTagResource(store, id, list))
               IN /\ calls' = Append(calls, Call("TagResource", id, list, r.err, fault))
                  /\ store' = r.store
                  /\ IF ~Throws(r.err)
                     THEN pc' = "policy" /\ result' = result
                     ELSE pc' = "done" /\ result' = Reject(r.err)
        ELSE /\ pc' = "policy"
             /\ UNCHANGED <<calls, store, result>>
  /\ UNCHANGED <<inputs, s3Plain, event, local, hist, last, cdk, other>>

PolicyErrorSwallowed(err) == TRUE

PolicyErrorRethrown(err) == FALSE

PolicyDesiredNever(policy) == FALSE

\* the truthiness test of props.SecretPolicy
PolicyDesired(policy) == policy \notin {Undefined, ""}

\* the catch around DeleteResourcePolicy
PolicyErrorTolerated(err) == err = ResourceNotFound

\* upsertSecret: put the resource policy, or delete it when the properties have none
Policy ==
  /\ pc = "policy"
  /\ \E fault \in BOOLEAN, strict \in BOOLEAN :
       LET id == props.SecretName
           put == PolicyDesired(props.SecretPolicy)
           r == Send(fault, IF put
                            THEN StorePutResourcePolicy(store, id, props.SecretPolicy)
                            ELSE StoreDeleteResourcePolicy(store, id, strict))
       IN /\ put => ~strict
          /\ calls' = Append(calls,
                        Call(IF put THEN "PutResourcePolicy" ELSE "DeleteResourcePolicy",
                             id, IF put THEN props.SecretPolicy ELSE Undefined, r.err, fault))
          /\ store' = r.store
          /\ IF ~Throws(r.err) \/ (~put /\ PolicyErrorTolerated(r.err))
             THEN pc' = "removeRegions" /\ result' = result
             ELSE pc' = "done" /\ result' = Reject(r.err)
  /\ UNCHANGED <<inputs, s3Plain, event, local, hist, last, cdk, other>>

newReplicatRegions ==
  IF props.SecretReplicaRegions.defined THEN JSONparse(props.SecretReplicaRegions) ELSE <<>>

regionsToRemoveKept(existingRegionNames, regionNames) ==
  { r \in existingRegionNames : Includes(regionNames, r) }

\* the regions upsertSecret passes to RemoveRegionsFromReplication
regionsToRemove(existingRegionNames, regionNames) ==
  { r \in existingRegionNames : ~Includes(regionNames, r) }

RemoveNever(secretExists, existingReplicaRegions, toRemove) == FALSE

\* whether upsertSecret calls RemoveRegionsFromReplication
RemoveNeeded(secretExists, existingReplicaRegions, toRemove) ==
  secretExists /\ existingReplicaRegions # {} /\ toRemove # {}

\* upsertSecret: remove existing replica regions not present in the properties
RemoveRegions ==
  /\ pc = "removeRegions"
  /\ LET id == props.SecretName
         toRemove == regionsToRemove(local.existingReplicaRegions, newReplicatRegions)
     IN IF ParseThrows(props.SecretReplicaRegions)
        THEN /\ pc' = "done" /\ result' = Reject(SyntaxError)
             /\ UNCHANGED <<calls, store>>
        ELSE IF RemoveNeeded(local.secretExists, local.existingReplicaRegions, toRemove)
        THEN \E fault \in BOOLEAN :
               LET r == Send(fault, StoreRemoveRegions(store, id, toRemove))
               IN /\ calls' = Append(calls,
                       Call("RemoveRegionsFromReplication", id, toRemove, r.err, fault))
                  /\ store' = r.store
                  /\ IF ~Throws(r.err)
                     THEN pc' = "addRegions" /\ result' = result
                     ELSE pc' = "done" /\ result' = Reject(r.err)
        ELSE /\ pc' = "addRegions"
             /\ UNCHANGED <<calls, store, result>>
  /\ UNCHANGED <<inputs, s3Plain, event, local, hist, last, cdk, other>>

\* upsertSecret: add the desired replica regions
AddRegions ==
  /\ pc = "addRegions"
  /\ LET id == props.SecretName
         regions == Range(newReplicatRegions)
     IN IF Len(newReplicatRegions) # 0
        THEN \E fault \in BOOLEAN :
               LET r == Send(fault, StoreReplicateToRegions(store, id, regions))
               IN /\ calls' = Append(calls,
                       Call("ReplicateSecretToRegions", id, regions, r.err, fault))
                  /\ store' = r.store
                  /\ IF ~Throws(r.err)
                     THEN pc' = "return" /\ result' = result
                     ELSE pc' = "done" /\ result' = Reject(r.err)
        ELSE /\ pc' = "return"
             /\ UNCHANGED <<calls, store, result>>
  /\ UNCHANGED <<inputs, s3Plain, event, local, hist, last, cdk, other>>

\* handleCreate / handleUpdate: the identity returned once upsertSecret is through
handleCreate == Resolve(props.SecretName)
handleUpdate == Resolve(event.PhysicalResourceId)

Return ==
  /\ pc = "return"
  /\ result' = IF event.RequestType = "Create" THEN handleCreate ELSE handleUpdate
  /\ pc' = "done"
  /\ UNCHANGED <<inputs, store, s3Plain, event, local, calls, hist, last, cdk, other>>

handleDeleteNoIdentity == Resolve(Undefined)

\* handleDelete: the response carries the identity of the event
handleDelete == Resolve(event.PhysicalResourceId)

DeleteErrorRethrown(err) == FALSE

\* the catch around DescribeSecret in handleDelete
DeleteErrorTolerated(err) == err = ResourceNotFound

\* handleDelete: describe the secret; an absent secret is already deleted
DeleteDescribe ==
  /\ pc = "delDescribe"
  /\ \E fault \in BOOLEAN :
       LET id == event.PhysicalResourceId
           err == IF fault THEN RemoteFailure
                  ELSE IF store[id].exists THEN OK ELSE ResourceNotFound
       IN /\ calls' = Append(calls, Call("DescribeSecret", id, <<>>, err, fault))
          /\ IF err = OK
             THEN /\ local' = [local EXCEPT !.secretExists = TRUE,
                                            !.existingTags = store[id].tags,
                                            !.existingReplicaRegions = store[id].regions]
                  /\ pc' = "delRemoveRegions" /\ result' = result
             ELSE IF DeleteErrorTolerated(err)
             THEN /\ local' = local
                  /\ pc' = "done" /\ result' = handleDelete
             ELSE /\ local' = local
                  /\ pc' = "done" /\ result' = Reject(err)
  /\ UNCHANGED <<inputs, store, s3Plain, event, hist, last, cdk, other>>

DeleteRegionsNever(replicationStatus) == FALSE

\* handleDelete: whether the replica regions are removed before the delete
DeleteRegionsFirst(replicationStatus) == replicationStatus # {}

\* handleDelete: remove the replica regions of the secret
DeleteRemoveRegions ==
  /\ pc = "delRemoveRegions"
  /\ LET id == event.PhysicalResourceId
         regions == local.existingReplicaRegions
     IN IF DeleteRegionsFirst(regions)
        THEN \E fault \in BOOLEAN :
               LET r == Send(fault, StoreRemoveRegions(store, id, regions))
               IN /\ calls' = Append(calls,
                       Call("RemoveRegionsFromReplication", id, regions, r.err, fault))
                  /\ store' = r.store
                  /\ IF ~Throws(r.err)
                     THEN pc' = "delDelete" /\ result' = result
                     ELSE pc' = "done" /\ result' = Reject(r.err)
        ELSE /\ pc' = "delDelete"
             /\ UNCHANGED <<calls, store, result>>
  /\ UNCHANGED <<inputs, s3Plain, event, local, hist, last, cdk, other>>

\* handleDelete: delete the secret without recovery window and return the identity
DeleteSecret ==
  /\ pc = "delDelete"
  /\ \E fault \in BOOLEAN :
       LET id == event.PhysicalResourceId
           r == Send(fault, StoreDeleteSecret(store, id))
       IN /\ calls' = Append(calls, Call("DeleteSecret", id, <<>>, r.err, fault))
          /\ store' = r.store
          /\ pc' = "done"
          /\ result' = IF ~Throws(r.err) THEN handleDelete ELSE Reject(r.err)
  /\ UNCHANGED <<inputs, s3Plain, event, local, hist, last, cdk, other>>

\* the invocation is over: its outcome goes back to the invoking layer and
\* nothing of it stays in the process
Finish ==
  /\ pc = "done"
  /\ last' = [event |-> event, plain |-> s3Plain, result |-> [result EXCEPT !.error = OK]]
  /\ pc' = "idle"
  /\ event' = NoEvent
  /\ s3Plain' = <<>>
  /\ local' = FreshLocals
  /\ calls' = <<>>
  /\ result' = NoResult
  /\ hist' = NoHist
  /\ UNCHANGED <<inputs, store, cdk, other>>

Next ==
  \/ onEvent
  \/ GetObject
  \/ Decode
  \/ Describe
  \/ WriteValue
  \/ Untag
  \/ Tag
  \/ Policy
  \/ RemoveRegions
  \/ AddRegions
  \/ Return
  \/ DeleteDescribe
  \/ DeleteRemoveRegions
  \/ DeleteSecret
  \/ Finish

NextLifecycle ==
  \/ onLifecycleEvent
  \/ GetObject
  \/ Decode
  \/ Describe
  \/ WriteValue
  \/ Untag
  \/ Tag
  \/ Policy
  \/ RemoveRegions
  \/ AddRegions
  \/ Return
  \/ DeleteDescribe
  \/ DeleteRemoveRegions
  \/ DeleteSecret
  \/ Finish

\* two invocations at a time, each run once
NextInterleave ==
  \/ onEvent
  \/ Switch
  \/ GetObject
  \/ Decode
  \/ Describe
  \/ WriteValue
  \/ Untag
  \/ Tag
  \/ Policy
  \/ RemoveRegions
  \/ AddRegions
  \/ Return
  \/ DeleteDescribe
  \/ DeleteRemoveRegions
  \/ DeleteSecret

\* ------------------------------------------------- the SopsSecret construct
TagLimit == 50

StackIds == { <<"S", "1">>, <<"S", "2">> }
SecretNames == { <<"n">>, <<"n", "-", "m">> }

NoStack ==
  [assets |-> 0, layers |-> 0, functions |-> 0, providers |-> 0, customResources |-> <<>>,
   constructed |-> 0]

NoConstruction ==
  [called |-> FALSE, stackId |-> <<>>, props |-> [secretName |-> <<>>, secretType |-> Undefined,
                                                  ext |-> "", tagsDefined |-> FALSE, tagCount |-> 0],
   error |-> OK, before |-> [s \in StackIds |-> NoStack],
   attemptedBefore |-> FALSE, constructedBefore |-> FALSE]

NoCdk ==
  [nameTracker |-> {}, stacks |-> [s \in StackIds |-> NoStack], attempted |-> {},
   last |-> NoConstruction]

\* the properties a SopsSecret is constructed with: name, explicit type or file
\* extension, and the number of tags
ConstructProps ==
  { p \in [secretName : SecretNames, secretType : {Undefined, "json"}, ext : {".json", ".bin"},
            tagsDefined : BOOLEAN, tagCount : {0, TagLimit, TagLimit + 1}] :
      /\ p.secretType # Undefined => p.ext = ".bin"
      /\ ~p.tagsDefined => p.tagCount = 0 }

TrackingKeyOfNameOnly(stackId, secretName) == secretName

\* `${stack.stackId}-${props.secretName}`
TrackingKey(stackId, secretName) == stackId \o <<"-">> \o secretName

TooManyTagsOffByOne(p) == p.tagsDefined /\ p.tagCount >= TagLimit

\* props.secretTags && props.secretTags.length > 50
TooManyTags(p) == p.tagsDefined /\ p.tagCount > TagLimit

\* the secret type: given, or derived from the file extension
inferType(p) ==
  IF p.secretType # Undefined THEN p.secretType
  ELSE CASE p.ext = ".json" -> "json"
         [] p.ext = ".yaml" -> "yaml"
         [] p.ext = ".yml" -> "yaml"
         [] p.ext = ".env" -> "dotenv"
         [] p.ext = ".txt" -> "txt"
         [] OTHER -> Undefined

getOrCreateProviderAlwaysNew(st) ==
  [st EXCEPT !.layers = @ + 1, !.functions = @ + 1, !.providers = @ + 1]

\* getOrCreateProvider: the provider of the stack, created with its layer and
\* function when the stack has none
getOrCreateProvider(st) ==
  IF st.providers > 0 THEN st
  ELSE [st EXCEPT !.layers = @ + 1, !.functions = @ + 1, !.providers = @ + 1]

\* new SopsSecret(scope, id, props), with an id that is new in its scope
Construct ==
  \E stackId \in StackIds, p \in ConstructProps :
    LET trackingKey == TrackingKey(stackId, p.secretName)
        duplicate == trackingKey \in cdk.nameTracker
        error == IF duplicate THEN "SopsSecret must have unique secretName"
                 ELSE IF TooManyTags(p) THEN "Can not set more-than 50 tags"
                 ELSE IF inferType(p) = Undefined
                      THEN "Could not infer file type from file name"
                 ELSE OK
        withProvider == getOrCreateProvider([cdk.stacks[stackId] EXCEPT !.assets = @ + 1])
        declared ==
          [withProvider EXCEPT
             !.customResources =
                Append(@, [SecretName |-> p.secretName, SecretType |-> inferType(p),
                           serviceToken |-> withProvider.providers]),
             !.constructed = @ + 1]
    IN /\ cdk' =
            [nameTracker |-> IF duplicate THEN cdk.nameTracker
                             ELSE cdk.nameTracker \cup {trackingKey},
             stacks |-> IF error = OK THEN [cdk.stacks EXCEPT ![stackId] = declared]
                        ELSE cdk.stacks,
             attempted |-> cdk.attempted \cup { <<stackId, p.secretName>> },
             last |-> [called |-> TRUE, stackId |-> stackId, props |-> p, error |-> error,
                       before |-> cdk.stacks,
                       attemptedBefore |-> <<stackId, p.secretName>> \in cdk.attempted,
                       constructedBefore |->
                         \E i \in 1..Len(cdk.stacks[stackId].customResources) :
                           cdk.stacks[stackId].customResources[i].SecretName = p.secretName]]
       /\ UNCHANGED <<inputs, store, s3Plain, event, pc, local, calls, result, hist, last, other>>

NextConstruct == Construct

\* ---------------------------------------------------------- specifications
InitWith(in) ==
  /\ inputs = in
  /\ store = [n \in AllNames |-> Absent]
  /\ s3Plain = <<>>
  /\ event = NoEvent
  /\ pc = "idle"
  /\ local = NoLocal
  /\ calls = <<>>
  /\ result = NoResult
  /\ hist = NoHist
  /\ last = NoLast
  /\ cdk = NoCdk
  /\ other = NoContext

\* tags in full, no replica region, no policy document
Init ==
  InitWith([names |-> {"alpha"},
            tags |-> Serialised(TagLists(NumKeys, NumVals)),
            policies |-> {Undefined},
            regions |-> { NoText },
            plaintexts |-> { <<"a">> },
            otherKinds |-> {}])

Spec == Init /\ [][Next]_vars

\* replica regions in full, one tag, two plaintexts
InitRegions ==
  InitWith([names |-> {"alpha"},
            tags |-> Serialised(TagLists(1, 1)),
            policies |-> {Undefined, "policyA"},
            regions |-> Serialised(RegionLists(NumRegions)),
            plaintexts |-> { <<"a">>, <<"a", "a">> },
            otherKinds |-> {}])

SpecRegions == InitRegions /\ [][Next]_vars

\* plaintexts in full, no tag, no policy, no replica region
InitDecode ==
  InitWith([names |-> {"alpha"},
            tags |-> Serialised({}),
            policies |-> {Undefined},
            regions |-> Serialised({}),
            plaintexts |-> Strings(MaxLen),
            otherKinds |-> {}])

SpecDecode == InitDecode /\ [][Next]_vars

\* two secret names, so that an Update can carry a name other than its identity
InitNames ==
  InitWith([names |-> {"alpha", "beta"},
            tags |-> { NoText },
            policies |-> {Undefined},
            regions |-> { NoText },
            plaintexts |-> { <<"a">> },
            otherKinds |-> {}])

SpecNames == InitNames /\ [][Next]_vars

\* events whose serialised tags or replica regions do not parse
InitMalformed ==
  InitWith([names |-> {"alpha"},
            tags |-> Serialised(TagLists(1, 1)) \cup { Malformed },
            policies |-> {Undefined, "policyA"},
            regions |-> Serialised(RegionLists(1)) \cup { Malformed },
            plaintexts |-> { <<"a">>, <<"a", "a">> },
            otherKinds |-> {}])

SpecMalformed == InitMalformed /\ [][Next]_vars

\* two policy documents, so that one policy can replace another
InitPolicy ==
  InitWith([names |-> {"alpha"},
            tags |-> { NoText },
            policies |-> {Undefined, "policyA", "policyB"},
            regions |-> { NoText },
            plaintexts |-> { <<"a">> },
            otherKinds |-> {}])

SpecPolicy == InitPolicy /\ [][Next]_vars

\* tag keys and replica regions in full, one tag value, no policy
InitShrink ==
  InitWith([names |-> {"alpha"},
            tags |-> Serialised(TagLists(NumKeys, 1)),
            policies |-> {Undefined},
            regions |-> Serialised(RegionLists(NumRegions)),
            plaintexts |-> { <<"a">> },
            otherKinds |-> {}])

SpecShrink == InitShrink /\ [][Next]_vars

\* events of a request type the handler does not know
InitUnknown ==
  InitWith([names |-> {"alpha"},
            tags |-> Serialised(TagLists(1, 1)),
            policies |-> {Undefined},
            regions |-> { NoText },
            plaintexts |-> { <<"a">> },
            otherKinds |-> {"Replace", ""}])

SpecUnknown == InitUnknown /\ [][Next]_vars

\* the lifecycle of one resource over two secret names, from an empty store
InitLifecycle ==
  InitWith([names |-> {"alpha", "beta"},
            tags |-> Serialised(TagLists(1, 1)),
            policies |-> {Undefined},
            regions |-> { NoText },
            plaintexts |-> { <<"a">> },
            otherKinds |-> {}])

SpecLifecycle == InitLifecycle /\ [][NextLifecycle]_vars

\* a secret as an earlier Create left it
Existing ==
  [exists |-> TRUE, value |-> <<"a">>, tags |-> { [Key |-> 1, Value |-> 1] },
   policy |-> Undefined, regions |-> {}]

\* two invocations on two secret names, each secret absent or left by an
\* earlier Create
InitInterleave ==
  /\ inputs = [names |-> {"alpha", "beta"},
               tags |-> { JSONstringify(<< <<2, 1>> >>) },
               policies |-> {Undefined},
               regions |-> { NoText },
               plaintexts |-> { <<"a", "a">> },
               otherKinds |-> {}]
  /\ store \in [AllNames -> {Absent, Existing}]
  /\ s3Plain = <<>>
  /\ event = NoEvent
  /\ pc = "idle"
  /\ local = NoLocal
  /\ calls = <<>>
  /\ result = NoResult
  /\ hist = NoHist
  /\ last = NoLast
  /\ cdk = NoCdk
  /\ other = NoContext

SpecInterleave == InitInterleave /\ [][NextInterleave]_vars

\* a store whose secrets may be deleted out of band during an invocation
InitExternal ==
  InitWith([names |-> {"alpha"},
            tags |-> Serialised(TagLists(1, 1)),
            policies |-> {Undefined, "policyA"},
            regions |-> Serialised(RegionLists(1)),
            plaintexts |-> { <<"a">> },
            otherKinds |-> {}])

NextExternal == Next \/ ExternalDelete

SpecExternal == InitExternal /\ [][NextExternal]_vars

\* synthesis: SopsSecret constructions in two stacks
InitConstruct ==
  InitWith([names |-> {"alpha"},
            tags |-> { NoText },
            policies |-> {Undefined},
            regions |-> { NoText },
            plaintexts |-> { <<"a">> },
            otherKinds |-> {}])

SpecConstruct == InitConstruct /\ [][NextConstruct]_vars

TypeOK ==
  /\ pc \in {"idle", "getObject", "decode", "describe", "write", "untag", "tag", "policy",
             "removeRegions", "addRegions", "return", "delDescribe", "delRemoveRegions",
             "delDelete", "done"}
  /\ result.status \in {"pending", "resolved", "rejected"}
  /\ \A n \in AllNames : ~store[n].exists => store[n] = Absent

\* ------------------------------------------------------------- properties
Upsert == event.RequestType \in {"Create", "Update"}
Delete == event.RequestType = "Delete"
Done == pc = "done"
Resolved == result.status = "resolved"
Rejected == result.status = "rejected"

DesiredTags == { [Key |-> t[1], Value |-> t[2]] : t \in Range(props.SecretTags.text) }
DesiredRegions == Range(props.SecretReplicaRegions.text)
PolicyOmitted == props.SecretPolicy \in {Undefined, ""}

Remote == store[props.SecretName]
RemoteAtStart == hist.startStore[props.SecretName]

CallIdx == 1..Len(calls)
Issued(op) == \E i \in CallIdx : calls[i].op = op

DecryptFailed == local.execDone /\ (~local.exec.ran \/ local.exec.stderr # <<>>)

\* the environment made this invocation fail: a remote call broke or sops did
EnvFailure == DecryptFailed \/ \E i \in CallIdx : calls[i].injected

\* w is p without its leading and trailing blanks, the rest untouched
IsTrimOf(w, p) ==
  \E i \in 0..Len(p) : \E j \in 0..(Len(p) - i) :
    /\ \A k \in 1..i : p[k] \in Whitespace
    /\ \A k \in (Len(p) - j + 1)..Len(p) : p[k] \in Whitespace
    /\ w = SubSeq(p, i + 1, Len(p) - j)
    /\ w # <<>> => (w[1] \notin Whitespace /\ w[Len(w)] \notin Whitespace)

\* a failed call other than the "not found" answers the handler catches
NotTolerated(c) ==
  /\ c.resp # OK
  /\ ~(c.resp = ResourceNotFound /\ c.op \in {"DescribeSecret", "DeleteResourcePolicy"})

\* C1: after a Create/Update that resolved, the tags of the remote secret are
\* exactly the desired tags (keys and values), whatever tags it had before.
C1_TagConvergence ==
  (Upsert /\ Done /\ Resolved) => Remote.tags = DesiredTags

\* C1 witness: the secret had a key that is not desired and a desired key with
\* another value ({env: staging, team: x} against {env: prod}).
C1_Witness ==
  /\ Upsert /\ Done /\ Resolved
  /\ \E t \in RemoteAtStart.tags : t.Key \notin TagKeysOf(DesiredTags)
  /\ \E t \in RemoteAtStart.tags : \E d \in DesiredTags : d.Key = t.Key /\ d.Value # t.Value
  /\ Remote.tags = DesiredTags

\* C2: after a Create/Update that resolved, the replica regions of the remote
\* secret are exactly the desired regions, whatever regions an earlier upsert
\* left behind (overlapping, disjoint or none).
C2_RegionConvergence ==
  (Upsert /\ Done /\ Resolved) => Remote.regions = DesiredRegions

\* C2 witness: the earlier regions overlap the desired ones without being equal.
C2_Witness ==
  /\ Upsert /\ Done /\ Resolved
  /\ RemoteAtStart.regions \cap DesiredRegions # {}
  /\ RemoteAtStart.regions \ DesiredRegions # {}
  /\ Remote.regions = DesiredRegions

\* C3: an Update that carries the definition of the Create that resolved just
\* before it resolves too (unless the environment fails), leaves tags, regions
\* and policy as the Create left them, and issues no untag and no
\* remove-regions call.
C3_UpsertIdempotent ==
  (hist.rel = "updateAfterSameCreate" /\ Done /\ ~EnvFailure) =>
    /\ Resolved
    /\ Remote.tags = RemoteAtStart.tags
    /\ Remote.regions = RemoteAtStart.regions
    /\ Remote.policy = RemoteAtStart.policy
    /\ ~Issued("UntagResource")
    /\ ~Issued("RemoveRegionsFromReplication")

\* C3 witness: such an Update resolved on a secret with tags, a region and a policy.
C3_Witness ==
  /\ hist.rel = "updateAfterSameCreate" /\ Done /\ Resolved
  /\ RemoteAtStart.tags # {}
  /\ RemoteAtStart.regions # {}
  /\ RemoteAtStart.policy # Undefined

\* C4: every Delete that resolves returns the identity it was invoked with, and
\* a Delete on the identity of the Delete that resolved just before it finds
\* the secret absent and resolves with that identity, without an error.
C4_DeleteIdempotent ==
  /\ (Delete /\ Done /\ Resolved) => result.PhysicalResourceId = event.PhysicalResourceId
  /\ (hist.rel = "deleteAfterDelete" /\ Done /\ ~EnvFailure) =>
       /\ Resolved
       /\ result.PhysicalResourceId = event.PhysicalResourceId
       /\ Len(calls) = 1
       /\ calls[1].op = "DescribeSecret" /\ calls[1].resp = ResourceNotFound

\* C4 witness: the second of two Deletes resolved.
C4_Witness ==
  /\ hist.rel = "deleteAfterDelete" /\ Done /\ Resolved
  /\ result.PhysicalResourceId = "alpha"

\* C5: in a Delete of a secret described with replica regions, the delete call
\* is issued only after one remove-regions call naming all those regions has
\* succeeded; at most one remove-regions call is issued; after a Delete that
\* resolved the secret is absent.
C5_DeleteOrdering ==
  Delete =>
    LET id == event.PhysicalResourceId
        described == hist.startStore[id].regions
        removals == { j \in CallIdx : calls[j].op = "RemoveRegionsFromReplication" }
    IN /\ \A i \in CallIdx :
            (calls[i].op = "DeleteSecret" /\ described # {}) =>
              \E j \in removals : j < i /\ calls[j].arg = described /\ calls[j].resp = OK
       /\ Cardinality(removals) <= 1
       /\ (Done /\ Resolved) => ~store[id].exists

\* C5 witness: a Delete of a secret with two replica regions resolved.
C5_Witness ==
  /\ Delete /\ Done /\ Resolved
  /\ Cardinality(hist.startStore[event.PhysicalResourceId].regions) >= 2
  /\ Issued("DeleteSecret")

\* C6: an invocation that repeats, event for event, the invocation that was
\* rejected just before it resolves unless the environment fails again; a
\* Create/Update then leaves value, tags, policy and regions as desired, a
\* Delete leaves the secret absent.
C6_SafeReinvocation ==
  (hist.rel = "retryOfFailed" /\ Done /\ ~EnvFailure) =>
    /\ Resolved
    /\ Upsert =>
         /\ Remote.exists
         /\ IsTrimOf(Remote.value, s3Plain)
         /\ Remote.tags = DesiredTags
         /\ Remote.regions = DesiredRegions
         /\ Remote.policy = (IF PolicyOmitted THEN Undefined ELSE props.SecretPolicy)
    /\ Delete => ~store[event.PhysicalResourceId].exists

\* C6 witness: the retry found the value already written by the rejected
\* invocation, but regions (and tags or policy) still to be brought in line.
C6_Witness ==
  /\ hist.rel = "retryOfFailed" /\ Upsert /\ Done /\ Resolved
  /\ RemoteAtStart.exists
  /\ RemoteAtStart.value = s3Plain
  /\ RemoteAtStart.regions # DesiredRegions
  /\ RemoteAtStart.tags # DesiredTags

\* what a resolved invocation must have gone through
FullSequence ==
  IF Delete
  THEN \/ Len(calls) = 1 /\ calls[1].op = "DescribeSecret" /\ calls[1].resp = ResourceNotFound
       \/ calls[Len(calls)].op = "DeleteSecret" /\ calls[Len(calls)].resp = OK
  ELSE /\ Issued("GetObject") /\ Issued("DescribeSecret")
       /\ Issued("CreateSecret") \/ Issued("UpdateSecret")
       /\ DesiredTags # {} => Issued("TagResource")
       /\ Issued("PutResourcePolicy") \/ Issued("DeleteResourcePolicy")
       /\ DesiredRegions # {} => Issued("ReplicateSecretToRegions")

\* C7: a remote call that fails with an error that is not tolerated is the last
\* call of its invocation and the invocation is rejected; an invocation
\* resolves only when none of its calls failed that way and its sequence of
\* calls is complete.
C7_NoPartialSuccess ==
  /\ \A i \in CallIdx :
       NotTolerated(calls[i]) => (i = Len(calls) /\ Done /\ Rejected)
  /\ Resolved => (Done /\ FullSequence /\ \A i \in CallIdx : ~NotTolerated(calls[i]))

\* C7 witness: a call failed after earlier calls had changed the secret.
C7_Witness ==
  /\ Upsert /\ Done /\ Rejected
  /\ Len(calls) >= 4
  /\ NotTolerated(calls[Len(calls)])
  /\ store # hist.startStore

\* C8: when sops cannot be run or writes anything to stderr (even next to a
\* plaintext on stdout), the Create/Update is rejected, no call other than the
\* fetch of the file has been issued and the store is as it was.
C8_DecryptFailsClosed ==
  (Upsert /\ DecryptFailed) =>
    /\ Done /\ Rejected
    /\ store = hist.startStore
    /\ \A i \in CallIdx : calls[i].op = "GetObject"

\* C8 witness: sops wrote a diagnostic next to a non-empty plaintext.
C8_Witness ==
  /\ Upsert /\ Done /\ Rejected
  /\ local.execDone /\ local.exec.ran
  /\ local.exec.stderr # <<>> /\ local.exec.stdout # <<>>
  /\ RemoteAtStart.exists

\* C9: the value passed to CreateSecret or UpdateSecret is the decrypted
\* plaintext without its leading and trailing blanks and with everything in
\* between unchanged, and it is the value the store holds afterwards.
C9_WhitespaceTrimmed ==
  \A i \in CallIdx :
    calls[i].op \in {"CreateSecret", "UpdateSecret"} =>
      /\ IsTrimOf(calls[i].arg, s3Plain)
      /\ calls[i].resp = OK => Remote.value = calls[i].arg

\* C9 witness: a plaintext with blanks before, inside and after was written by
\* an update.
C9_Witness ==
  /\ Upsert /\ Done /\ Resolved
  /\ Issued("UpdateSecret")
  /\ Len(s3Plain) >= 5
  /\ s3Plain[1] \in Whitespace /\ s3Plain[Len(s3Plain)] \in Whitespace
  /\ \E k \in 1..Len(Remote.value) : Remote.value[k] \in Whitespace

\* C10: a Create/Update without a desired policy that resolves has issued a
\* delete-policy call; once that call has answered OK or "not found" the secret
\* has no policy, and the invocation goes on to the region step and resolves
\* unless a later call fails.
C10_PolicyClearing ==
  /\ (Upsert /\ PolicyOmitted /\ Done /\ Resolved) => Issued("DeleteResourcePolicy")
  /\ \A i \in CallIdx :
       (calls[i].op = "DeleteResourcePolicy" /\ calls[i].resp \in {OK, ResourceNotFound}) =>
         /\ Remote.policy = Undefined
         /\ Done => (Resolved \/ \E j \in CallIdx : j > i /\ calls[j].resp # OK)

\* C10 witness: the store answered "not found" to the delete-policy call and
\* the invocation went on to replicate and resolved.
C10_Witness ==
  /\ Upsert /\ Done /\ Resolved
  /\ \E i \in CallIdx :
       /\ calls[i].op = "DeleteResourcePolicy" /\ calls[i].resp = ResourceNotFound
       /\ \E j \in CallIdx : j > i /\ calls[j].op = "ReplicateSecretToRegions"

\* C11: every Create and every Update that resolves returns as identity the
\* name of the desired definition, the secret it described and wrote, also
\* when an Update carries a name other than the identity it was invoked with.
C11_ReturnedIdentity ==
  (Upsert /\ Done /\ Resolved) =>
    /\ result.PhysicalResourceId = props.SecretName
    /\ \A i \in CallIdx : calls[i].op # "GetObject" => calls[i].SecretId = props.SecretName

Construction == cdk.last
UniquenessError == "SopsSecret must have unique secretName"
TagLimitError == "Can not set more-than 50 tags"

\* C12: a construction with more than 50 tags is rejected (with the tag error,
\* or with the uniqueness error raised before it) and declares no asset,
\* provider or custom resource, hence no event and no remote call for it; a
\* construction with 50 tags or fewer is never rejected with the tag error.
C12_TagLimit ==
  Construction.called =>
    /\ (Construction.props.tagsDefined /\ Construction.props.tagCount > 50) =>
         /\ Construction.error \in {TagLimitError, UniquenessError}
         /\ cdk.stacks = Construction.before
    /\ (~Construction.props.tagsDefined \/ Construction.props.tagCount <= 50) =>
         Construction.error # TagLimitError

\* C12 witness: 51 tags were rejected in a stack that already has a secret.
C12_Witness ==
  /\ Construction.called
  /\ Construction.props.tagsDefined /\ Construction.props.tagCount = 51
  /\ Construction.error = TagLimitError
  /\ cdk.stacks[Construction.stackId].constructed >= 1
  /\ cdk.stacks = Construction.before

\* C13 as stated: a construction fails if and only if a SopsSecret with the
\* same secretName was already constructed in the same stack.
C13_FailsIffDuplicate ==
  Construction.called => ((Construction.error # OK) <=> Construction.constructedBefore)

NamesOf(st) == { st.customResources[i].SecretName : i \in 1..Len(st.customResources) }

\* C13 amended: a construction fails with the uniqueness error if and only if
\* a construction with the same secretName was already attempted in the same
\* stack (whether it succeeded or was rejected for its tags or file type); a
\* name used only in another stack is accepted; no two secrets constructed in
\* one stack share a secretName.
C13_UniquePerStack ==
  /\ Construction.called =>
       ((Construction.error = UniquenessError) <=> Construction.attemptedBefore)
  /\ \A sid \in StackIds :
       Cardinality(NamesOf(cdk.stacks[sid])) = Len(cdk.stacks[sid].customResources)

\* C13 witness: a name was rejected in the stack that has it and accepted in
\* the other stack.
C13_Witness ==
  /\ Construction.called /\ Construction.error = UniquenessError
  /\ Construction.constructedBefore
  /\ \A sid \in StackIds : Construction.props.secretName \in NamesOf(cdk.stacks[sid])

\* C14: a stack with n >= 1 constructed secrets has exactly one provider, one
\* secret-updater function, one sops layer and n custom resources, all of them
\* referring to that provider.
C14_SingleProvider ==
  \A sid \in StackIds :
    LET st == cdk.stacks[sid]
    IN st.constructed >= 1 =>
         /\ st.providers = 1 /\ st.functions = 1 /\ st.layers = 1
         /\ Len(st.customResources) = st.constructed
         /\ \A i \in 1..Len(st.customResources) : st.customResources[i].serviceToken = 1

\* C14 witness: two secrets in each stack, one provider in each.
C14_Witness ==
  \A sid \in StackIds :
    cdk.stacks[sid].constructed = 2 /\ cdk.stacks[sid].providers = 1

\* C15: in a Create/Update the keys passed to the untag call are the existing
\* tag keys minus the desired tag keys, the call is not issued when that set is
\* empty, and a key that is both existing and desired stays on the remote
\* secret throughout the invocation.
C15_UntagComplement ==
  (Upsert /\ pc # "idle") =>
    LET existingKeys == TagKeysOf(RemoteAtStart.tags)
        desiredKeys == TagKeysOf(DesiredTags)
    IN /\ \A i \in CallIdx :
            calls[i].op = "UntagResource" =>
              calls[i].arg = existingKeys \ desiredKeys /\ calls[i].arg # {}
       /\ Remote.exists => (existingKeys \cap desiredKeys) \subseteq TagKeysOf(Remote.tags)

\* C16: a Create/Update whose serialised tags or replica regions do not parse
\* is rejected without any remote call having been issued, so the value, the
\* tags, the policy and the regions of the secret are as they were (stated for
\* the invocations in which nothing else fails).
C16_MalformedFailsFirst ==
  (/\ Upsert /\ Done /\ ~EnvFailure
   /\ (ParseThrows(props.SecretTags) \/ ParseThrows(props.SecretReplicaRegions))) =>
    /\ Rejected
    /\ calls = <<>>
    /\ Remote = RemoteAtStart

TaggingPolicyRegionOps ==
  {"UntagResource", "TagResource", "PutResourcePolicy", "DeleteResourcePolicy",
   "RemoveRegionsFromReplication", "ReplicateSecretToRegions"}

\* the call at index i made the invocation fail with "not found"
FailedNotFoundAt(i) ==
  /\ calls[i].resp = ResourceNotFound
  /\ i = Len(calls) /\ Done /\ Rejected /\ result.error = ResourceNotFound

\* C17 as stated: in a Create/Update whose describe call found the secret, a
\* "not found" answer from a tag, untag, put-policy, clear-policy, add-regions
\* or remove-regions call makes the invocation fail.
C17_NotFoundNeverTolerated ==
  (Upsert /\ pc # "idle" /\ local.secretExists) =>
    \A i \in CallIdx :
      (calls[i].op \in TaggingPolicyRegionOps /\ calls[i].resp = ResourceNotFound) =>
        FailedNotFoundAt(i)

\* C17 amended: in a Create/Update whose describe call found the secret, a
\* "not found" answer from a tag, untag, put-policy, add-regions or
\* remove-regions call makes the invocation fail; "not found" is converted to
\* a non-error outcome only for the describe call of Create/Update, for the
\* describe call of Delete and for the clear-policy call.
C17_NotFoundTolerance ==
  pc # "idle" =>
    \A i \in CallIdx :
      calls[i].resp = ResourceNotFound =>
        IF calls[i].op \in {"DescribeSecret", "DeleteResourcePolicy"}
        THEN ~FailedNotFoundAt(i)
        ELSE FailedNotFoundAt(i)

\* C17 witness: the secret was found by describe and deleted out of band
\* before the tag call, which answered "not found" and failed the Update.
C17_Witness ==
  /\ Upsert /\ local.secretExists /\ Done /\ Rejected
  /\ calls[Len(calls)].op = "TagResource"
  /\ calls[Len(calls)].resp = ResourceNotFound

ValueWrites == { i \in CallIdx : calls[i].op \in {"UpdateSecret", "CreateSecret"} }
DescribeAnswers == { calls[i].resp : i \in { j \in CallIdx : calls[j].op = "DescribeSecret" } }

\* C18: a Create/Update that got past its describe call issues exactly one
\* value-writing call, UpdateSecret if and only if describe found the secret
\* and CreateSecret if and only if describe answered "not found", whatever the
\* event kind; and in every state of every invocation the value of a secret is
\* the one that call wrote, or the value it had when the invocation began.
C18_SingleValueWrite ==
  /\ (Upsert /\ pc # "idle") =>
       /\ Cardinality(ValueWrites) <= 1
       /\ (pc \notin {"getObject", "decode", "describe", "write"}
           /\ DescribeAnswers \subseteq {OK, ResourceNotFound}
           /\ DescribeAnswers # {}) => Cardinality(ValueWrites) = 1
       /\ \A i \in ValueWrites :
            /\ calls[i].op = "UpdateSecret" <=> DescribeAnswers = {OK}
            /\ calls[i].op = "CreateSecret" <=> DescribeAnswers = {ResourceNotFound}
  /\ pc # "idle" =>
       \A n \in AllNames :
         store[n].exists =>
           store[n].value =
             IF \E i \in ValueWrites : calls[i].SecretId = n /\ calls[i].resp = OK
             THEN calls[CHOOSE i \in ValueWrites : TRUE].arg
             ELSE hist.startStore[n].value

\* C18 witness: a Create event found the secret, wrote a new value with
\* UpdateSecret and resolved.
C18_Witness ==
  /\ event.RequestType = "Create" /\ Done /\ Resolved
  /\ \E i \in ValueWrites : calls[i].op = "UpdateSecret"
  /\ Remote.value # RemoteAtStart.value

PolicyCalls == { i \in CallIdx : calls[i].op \in {"PutResourcePolicy", "DeleteResourcePolicy"} }

\* C19: a Create/Update that resolves has issued exactly one policy call and
\* no call that reads the policy: PutResourcePolicy with the desired document
\* when a policy is desired, DeleteResourcePolicy otherwise; afterwards the
\* attached policy is the desired one, or none when none is desired, whatever
\* policy was attached before.
C19_PolicyOverwrite ==
  /\ (Upsert /\ pc # "idle") =>
       /\ Cardinality(PolicyCalls) <= 1
       /\ ~Issued("GetResourcePolicy")
       /\ \A i \in PolicyCalls :
            IF PolicyOmitted
            THEN calls[i].op = "DeleteResourcePolicy"
            ELSE calls[i].op = "PutResourcePolicy" /\ calls[i].arg = props.SecretPolicy
  /\ (Upsert /\ Done /\ Resolved) =>
       /\ Cardinality(PolicyCalls) = 1
       /\ Remote.policy = IF PolicyOmitted THEN Undefined ELSE props.SecretPolicy

\* C19 witness: one policy document replaced another with a single
\* PutResourcePolicy call.
C19_Witness ==
  /\ Upsert /\ Done /\ Resolved
  /\ RemoteAtStart.policy = "policyA"
  /\ props.SecretPolicy = "policyB" /\ Remote.policy = "policyB"
  /\ \E i \in PolicyCalls : calls[i].op = "PutResourcePolicy"

FirstCall(op) == CHOOSE i \in CallIdx : calls[i].op = op

Precedes(op1, op2) == (Issued(op1) /\ Issued(op2)) => FirstCall(op1) < FirstCall(op2)

\* C20: within one Create/Update the untag call precedes the tag call and the
\* remove-regions call precedes the add-regions call, and in every state of the
\* invocation the remote tag keys are among the keys that existed before or
\* among the desired keys, and the remote regions are among the regions that
\* existed before or among the desired regions.
C20_ShrinkBeforeGrow ==
  (Upsert /\ pc # "idle") =>
    /\ Precedes("UntagResource", "TagResource")
    /\ Precedes("RemoveRegionsFromReplication", "ReplicateSecretToRegions")
    /\ \/ TagKeysOf(Remote.tags) \subseteq TagKeysOf(RemoteAtStart.tags)
       \/ TagKeysOf(Remote.tags) \subseteq TagKeysOf(DesiredTags)
    /\ \/ Remote.regions \subseteq RemoteAtStart.regions
       \/ Remote.regions \subseteq DesiredRegions

\* C20 witness: a tag key and a region were replaced by others; the stale ones
\* were removed first and the new ones added afterwards.
C20_Witness ==
  /\ Upsert /\ Done /\ Resolved
  /\ Issued("UntagResource") /\ Issued("TagResource")
  /\ Issued("RemoveRegionsFromReplication") /\ Issued("ReplicateSecretToRegions")
  /\ TagKeysOf(RemoteAtStart.tags) \cap TagKeysOf(DesiredTags) = {}
  /\ RemoteAtStart.regions \cap DesiredRegions = {}
  /\ Remote.tags = DesiredTags /\ Remote.regions = DesiredRegions

\* C21: when the describe call of a Delete answers "not found", the invocation
\* resolves with the identity of its event and has issued no other call, and
\* the store is as it was when the invocation began.
C21_DeleteAbsent ==
  (Delete /\ \E i \in CallIdx : calls[i].op = "DescribeSecret" /\ calls[i].resp = ResourceNotFound) =>
    /\ Done /\ Resolved
    /\ result.PhysicalResourceId = event.PhysicalResourceId
    /\ Len(calls) = 1
    /\ store = hist.startStore

\* C21 witness: a Delete of a secret that an earlier Delete removed.
C21_Witness ==
  /\ Delete /\ Done /\ Resolved
  /\ hist.rel = "deleteAfterDelete"
  /\ calls[1].op = "DescribeSecret" /\ calls[1].resp = ResourceNotFound
  /\ result.PhysicalResourceId = "alpha"

\* C25: an event whose request type is none of Create, Update and Delete makes
\* onEvent return a rejected promise (a result, not a thrown exception and not
\* a success) without any remote call, and the store is left as it was.
C25_UnknownEventKind ==
  (pc # "idle" /\ event.RequestType \notin {"Create", "Update", "Delete"}) =>
    /\ Done /\ Rejected
    /\ result.error = Failed
    /\ calls = <<>>
    /\ store = hist.startStore

\* C25 witness: an event of type "Replace" on an existing secret was rejected.
C25_Witness ==
  /\ event.RequestType = "Replace" /\ Done /\ Rejected
  /\ store[event.PhysicalResourceId].exists
  /\ calls = <<>>

\* C22: when a remote call of a Create, Update or Delete fails with an error
\* the handler does not tolerate, the promise onEvent returned is rejected with
\* that very error, not with the generic error of its catch block, and no
\* further call is issued.
C22_ErrorsUnchanged ==
  (pc # "idle" /\ calls # <<>> /\ NotTolerated(calls[Len(calls)])) =>
    /\ Done /\ Rejected
    /\ result.error = calls[Len(calls)].resp
    /\ result.error # Failed

\* C22 witness: the secret disappeared between the describe and the delete
\* call of a Delete, and the Delete was rejected with "not found"; a throttled
\* call is rejected with its own error in other invocations.
C22_Witness ==
  /\ Delete /\ Done /\ Rejected
  /\ calls[Len(calls)].op = "DeleteSecret"
  /\ result.error = ResourceNotFound

\* what an invocation sends, without what the store answers
Sent(c) == [op |-> c.op, SecretId |-> c.SecretId, arg |-> c.arg]

OptionalCall(cond, c) == IF cond THEN <<c>> ELSE <<>>

\* the calls of a Create/Update with event ev and decrypted file plain, from
\* the store st, when nothing fails
UpsertCallsFrom(ev, plain, st) ==
  LET p == ev.ResourceProperties
      id == p.SecretName
      remote == st[id]
      tagList == IF p.SecretTags.defined THEN p.SecretTags.text ELSE <<>>
      tagRecords == [i \in 1..Len(tagList) |-> [Key |-> tagList[i][1], Value |-> tagList[i][2]]]
      regionList == IF p.SecretReplicaRegions.defined THEN p.SecretReplicaRegions.text ELSE <<>>
      staleKeys == TagKeysOf(remote.tags) \ { tagList[i][1] : i \in 1..Len(tagList) }
      staleRegions == remote.regions \ Range(regionList)
      c(op, arg) == [op |-> op, SecretId |-> id, arg |-> arg]
  IN <<[op |-> "GetObject", SecretId |-> Undefined, arg |-> <<>>],
       c("DescribeSecret", <<>>),
       c(IF remote.exists THEN "UpdateSecret" ELSE "CreateSecret", trim(plain))>>
     \o OptionalCall(staleKeys # {}, c("UntagResource", TagKeysOf(remote.tags)))
     \o OptionalCall(tagList # <<>>, c("TagResource", tagRecords))
     \o <<IF p.SecretPolicy \in {Undefined, ""}
          THEN c("DeleteResourcePolicy", Undefined)
          ELSE c("PutResourcePolicy", p.SecretPolicy)>>
     \o OptionalCall(staleRegions # {}, c("RemoveRegionsFromReplication", staleRegions))
     \o OptionalCall(regionList # <<>>, c("ReplicateSecretToRegions", Range(regionList)))

\* the calls of a Delete with event ev from the store st, when nothing fails
DeleteCallsFrom(ev, st) ==
  LET id == ev.PhysicalResourceId
      remote == st[id]
      c(op, arg) == [op |-> op, SecretId |-> id, arg |-> arg]
  IN <<c("DescribeSecret", <<>>)>>
     \o OptionalCall(remote.exists /\ remote.regions # {},
                     c("RemoveRegionsFromReplication", remote.regions))
     \o OptionalCall(remote.exists, c("DeleteSecret", <<>>))

CallsFrom(ev, plain, st) ==
  IF ev.RequestType = "Delete" THEN DeleteCallsFrom(ev, st) ELSE UpsertCallsFrom(ev, plain, st)

IdentityFrom(ev) ==
  IF ev.RequestType = "Create" THEN ev.ResourceProperties.SecretName ELSE ev.PhysicalResourceId

DecisionOps ==
  {"UntagResource", "TagResource", "RemoveRegionsFromReplication",
   "ReplicateSecretToRegions", "DeleteSecret"}

\* C23: every invocation describes the secret before any tag, region or delete
\* call, and what it sends is a function of its event, the file it decrypts and
\* the store as it was when the invocation began: whatever invocations ran
\* before, the calls are the first calls of that function's sequence, and an
\* invocation in which nothing fails sends the whole sequence and resolves
\* with the identity the event determines.
C23_NoCarriedState ==
  (pc # "idle" /\ (Upsert \/ Delete)) =>
    LET expected == CallsFrom(event, s3Plain, hist.startStore)
    IN /\ \A i \in CallIdx :
            calls[i].op \in DecisionOps =>
              \E j \in 1..(i - 1) :
                calls[j].op = "DescribeSecret" /\ calls[j].SecretId = calls[i].SecretId
       /\ Len(calls) <= Len(expected)
       /\ \A i \in CallIdx : Sent(calls[i]) = expected[i]
       /\ (Done /\ ~EnvFailure) =>
            /\ Len(calls) = Len(expected)
            /\ result = Resolve(IdentityFrom(event))

\* C23 witness: a Create that follows a rejected invocation found the secret
\* with a tag and a region that are not desired, removed both and resolved.
C23_Witness ==
  /\ event.RequestType = "Create" /\ Done /\ Resolved
  /\ Issued("UntagResource") /\ Issued("RemoveRegionsFromReplication")
  /\ Issued("UpdateSecret")

\* C24: after the Delete that ends a lifecycle (a Create, Updates and a Delete,
\* each invoked with the identity the preceding invocation returned, all of
\* them resolved) no secret the lifecycle created or wrote exists; the store
\* was empty before the Create, so no secret exists at all.
C24_NoOrphan ==
  (Delete /\ Done /\ Resolved) => \A n \in AllNames : ~store[n].exists

\* the secret an invocation with event ev works on
OwnName(ev) ==
  IF ev.RequestType = "Delete" THEN ev.PhysicalResourceId ELSE ev.ResourceProperties.SecretName

\* the secret an invocation with event ev and decrypted file plain leaves when
\* it runs alone and nothing fails
StateAlone(ev, plain) ==
  LET p == ev.ResourceProperties
  IN IF ev.RequestType = "Delete" THEN Absent
     ELSE [exists |-> TRUE,
           value |-> trim(plain),
           tags |-> { [Key |-> t[1], Value |-> t[2]] : t \in Range(p.SecretTags.text) },
           policy |-> IF p.SecretPolicy \in {Undefined, ""} THEN Undefined ELSE p.SecretPolicy,
           regions |-> Range(p.SecretReplicaRegions.text)]

OwnCallsOnly(ev, cs) ==
  \A i \in 1..Len(cs) : cs[i].op # "GetObject" => cs[i].SecretId = OwnName(ev)

\* C26: of two invocations on different secret names whose calls interleave in
\* any order, each names only its own secret in its calls, and when one of
\* them is through without a failure its secret is in the state the invocation
\* produces when it runs alone, wherever the other invocation stands.
C26_Independence ==
  /\ (pc # "idle") => OwnCallsOnly(event, calls)
  /\ (other.pc # "idle") => OwnCallsOnly(other.event, other.calls)
  /\ (/\ Done /\ ~EnvFailure
      /\ other.pc # "idle" => OwnName(other.event) # OwnName(event)) =>
       /\ Resolved
       /\ store[OwnName(event)] = StateAlone(event, s3Plain)

\* C26 witness: an Update of one secret and a Delete of the other, both found
\* existing, took turns call by call and both resolved.
C26_Witness ==
  /\ Done /\ Resolved /\ other.pc = "done" /\ other.result.status = "resolved"
  /\ event.RequestType = "Update" /\ other.event.RequestType = "Delete"
  /\ OwnName(event) # OwnName(other.event)
  /\ hist.startStore[OwnName(event)].exists
  /\ other.hist.startStore[OwnName(other.event)].exists
  /\ Len(calls) > 3
  /\ Len(other.calls) >= 2
  /\ hist.startStore[OwnName(other.event)].exists
  /\ other.hist.startStore[OwnName(event)] # store[OwnName(event)]
====
